---- MODULE Spec2Model ----
(***************************************************************************)
(* Divya Drishti Braille learner (divya_drishti1.ino): the firmware's      *)
(* setup(), loop(), navigation handlers, renderer and the two button       *)
(* interrupt service routines, as one state machine.                       *)
(*                                                                         *)
(* The main thread is cut at its delay() calls and at the function         *)
(* boundaries inside loop(): these are the points between which an         *)
(* interrupt handler can run and change the shared flags.  Time is         *)
(* millis(), in milliseconds.                                              *)
(***************************************************************************)
EXTENDS Integers, Sequences, FiniteSets

VARIABLES
    pc,                     \* position of the main thread
    wake,                   \* millis() value at which the current delay() returns
    now,                    \* millis()
    left,                   \* time the run may still advance by (bounds the model)
    edgesLeft,              \* raw button edges the environment may still produce
    attached,               \* attachInterrupt() has been called for both buttons
    interruptsMasked,       \* between noInterrupts() and interrupts()
    volume,                 \* last dfPlayer.volume() argument, -1 before any call
    nextButtonPressed,      \* volatile bool nextButtonPressed
    prevButtonPressed,      \* volatile bool prevButtonPressed
    lastInterruptTimeNext,  \* static lastInterruptTime of nextButtonISR
    lastInterruptTimePrev,  \* static lastInterruptTime of prevButtonISR
    currentPosition,        \* int currentPosition
    lastActionTime,         \* unsigned long lastActionTime
    isDisplayingPattern,    \* bool isDisplayingPattern
    nextPressed,            \* loop() local nextPressed, as last assigned
    prevPressed,            \* loop() local prevPressed, as last assigned
    servo,                  \* last angle written to each of the six servos, -1 before any write
    events,                 \* calls made by the operation in progress, in order
    arg,                    \* argument of the function under test (pure-function specifications)
    before,                 \* servo angles when the function under test was called
    rawEdges,               \* history: the times of the raw edges so far, per button
    acceptedEdges,          \* history: the times of the edges that passed the debounce test
    transitions,            \* history: handler calls so far, per button
    atPoll                  \* history: currentPosition when loop() last read the flags

vars == <<pc, wake, now, left, edgesLeft, attached, interruptsMasked, volume, nextButtonPressed,
          prevButtonPressed, lastInterruptTimeNext, lastInterruptTimePrev,
          currentPosition, lastActionTime, isDisplayingPattern, nextPressed,
          prevPressed, servo, events, arg, before, rawEdges, acceptedEdges,
          transitions, atPoll>>

(***************************************************************************)
(* Program constants                                                       *)
(***************************************************************************)
TOTAL_LETTERS == 26
INTRO_AUDIO_TRACK == 27
VOLUME_LEVEL == 25
SERVO_MOVEMENT_DELAY == 500
AUDIO_DISPLAY_DELAY == 2000
DEBOUNCE_DELAY == 250
INTRO_AUDIO_DURATION == 4000
SETUP_CLEAR_DELAY == 1000
LOOP_DELAY == 10
HALT_DELAY == 1000

DOT1_UP == 175
DOT1_DOWN == 155
DOT2_UP == 20
DOT2_DOWN == 0
DOT3_UP == 180
DOT3_DOWN == 165
DOT4_UP == 0
DOT4_DOWN == 20
DOT5_UP == 150
DOT5_DOWN == 185
DOT6_UP == 0
DOT6_DOWN == 20

(***************************************************************************)
(* Bounds of the model                                                     *)
(***************************************************************************)
MaxTime == 12100        \* a run from boot advances millis() by at most this much
MaxEdges == 2           \* raw button edges in a run from boot
LetterTime == 2600      \* a run from a READY state advances millis() by at most this much
LetterEdges == 2        \* raw button edges in a run from a READY state
PressStep == 1000       \* a button may be pressed at every multiple of PressStep ms
BounceGap == 100        \* ... and BounceGap ms after the last accepted edge (contact bounce)
RepeatGap == 300        \* ... and RepeatGap ms after the last accepted edge (quick second press)
ReadyStart == 100000    \* millis() at the start of a run from a READY state
ArgMin == 3             \* the renderer is tried on arguments -ArgMin .. TOTAL_LETTERS + ArgMax
ArgMax == 3
HoldTime == 6100        \* a run from the end of setup() advances millis() by at most this much
HoldEdges == 2          \* raw button edges in a run from the end of setup()
PatternEdges == 1       \* raw button edges during one call of the renderer
NavExtra == 1           \* a run of the navigation arithmetic has up to TOTAL_LETTERS + NavExtra steps
NavTurns == 1           \* ... and changes direction at most NavTurns times

Dots == 1..6
Letters == 1..TOTAL_LETTERS

\* millis() values are unsigned long.  The runs modelled here end long before
\* millis() wraps around (2^32 ms, about 49.7 days), so b <= a in every
\* difference a - b the program takes and the unsigned result is a - b.
Elapsed(a, b) == a - b
After(a, d) == a + d

Event(op, n) == [op |-> op, arg |-> n]

(***************************************************************************)
(* Servo control                                                           *)
(***************************************************************************)
setDot1(s, raised) == [s EXCEPT ![1] = IF raised THEN DOT1_UP ELSE DOT1_DOWN]
setDot2(s, raised) == [s EXCEPT ![2] = IF raised THEN DOT2_UP ELSE DOT2_DOWN]
setDot3(s, raised) == [s EXCEPT ![3] = IF raised THEN DOT3_UP ELSE DOT3_DOWN]
setDot4(s, raised) == [s EXCEPT ![4] = IF raised THEN DOT4_UP ELSE DOT4_DOWN]
setDot5(s, raised) == [s EXCEPT ![5] = IF raised THEN DOT5_UP ELSE DOT5_DOWN]
setDot6(s, raised) == [s EXCEPT ![6] = IF raised THEN DOT6_UP ELSE DOT6_DOWN]

\* dot 2 forgotten
clearAllDotsButDot2(s) ==
    setDot6(setDot5(setDot4(setDot3(setDot1(s, FALSE), FALSE), FALSE), FALSE), FALSE)

\* the writes of clearAllDots(), without its delay
clearAllDots(s) ==
    setDot6(setDot5(setDot4(setDot3(setDot2(setDot1(s, FALSE), FALSE), FALSE), FALSE), FALSE), FALSE)

\* switch(letterNumber) of displayBraillePattern: it has no default, any
\* other argument writes nothing
switchLetterNumber(s, letterNumber) ==
    CASE letterNumber = 1  -> setDot1(s, TRUE)
      [] letterNumber = 2  -> setDot2(setDot1(s, TRUE), TRUE)
      [] letterNumber = 3  -> setDot4(setDot1(s, TRUE), TRUE)
      [] letterNumber = 4  -> setDot5(setDot4(setDot1(s, TRUE), TRUE), TRUE)
      [] letterNumber = 5  -> setDot5(setDot1(s, TRUE), TRUE)
      [] letterNumber = 6  -> setDot4(setDot2(setDot1(s, TRUE), TRUE), TRUE)
      [] letterNumber = 7  -> setDot5(setDot4(setDot2(setDot1(s, TRUE), TRUE), TRUE), TRUE)
      [] letterNumber = 8  -> setDot5(setDot2(setDot1(s, TRUE), TRUE), TRUE)
      [] letterNumber = 9  -> setDot4(setDot2(s, TRUE), TRUE)
      [] letterNumber = 10 -> setDot5(setDot4(setDot2(s, TRUE), TRUE), TRUE)
      [] letterNumber = 11 -> setDot3(setDot1(s, TRUE), TRUE)
      [] letterNumber = 12 -> setDot3(setDot2(setDot1(s, TRUE), TRUE), TRUE)
      [] letterNumber = 13 -> setDot4(setDot3(setDot1(s, TRUE), TRUE), TRUE)
      [] letterNumber = 14 -> setDot5(setDot4(setDot3(setDot1(s, TRUE), TRUE), TRUE), TRUE)
      [] letterNumber = 15 -> setDot5(setDot3(setDot1(s, TRUE), TRUE), TRUE)
      [] letterNumber = 16 -> setDot4(setDot3(setDot2(setDot1(s, TRUE), TRUE), TRUE), TRUE)
      [] letterNumber = 17 -> setDot5(setDot4(setDot3(setDot2(setDot1(s, TRUE), TRUE), TRUE), TRUE), TRUE)
      [] letterNumber = 18 -> setDot5(setDot3(setDot2(setDot1(s, TRUE), TRUE), TRUE), TRUE)
      [] letterNumber = 19 -> setDot4(setDot3(setDot2(s, TRUE), TRUE), TRUE)
      [] letterNumber = 20 -> setDot5(setDot4(setDot3(setDot2(s, TRUE), TRUE), TRUE), TRUE)
      [] letterNumber = 21 -> setDot6(setDot3(setDot1(s, TRUE), TRUE), TRUE)
      [] letterNumber = 22 -> setDot6(setDot3(setDot2(setDot1(s, TRUE), TRUE), TRUE), TRUE)
      [] letterNumber = 23 -> setDot6(setDot5(setDot4(setDot2(s, TRUE), TRUE), TRUE), TRUE)
      [] letterNumber = 24 -> setDot6(setDot4(setDot3(setDot1(s, TRUE), TRUE), TRUE), TRUE)
      [] letterNumber = 25 -> setDot6(setDot5(setDot4(setDot3(setDot1(s, TRUE), TRUE), TRUE), TRUE), TRUE)
      [] letterNumber = 26 -> setDot6(setDot5(setDot3(setDot1(s, TRUE), TRUE), TRUE), TRUE)
      [] OTHER -> s

\* a missing break after case 9: I falls through into J
displayBraillePatternFallsThrough(s, letterNumber) ==
    IF letterNumber = 9
      THEN switchLetterNumber(switchLetterNumber(s, 9), 10)
      ELSE switchLetterNumber(s, letterNumber)

\* every channel written: the others lowered first
displayBraillePatternSetsAll(s, letterNumber) ==
    switchLetterNumber(clearAllDots(s), letterNumber)

\* the writes of displayBraillePattern(letterNumber), without its delay
displayBraillePattern(s, letterNumber) == switchLetterNumber(s, letterNumber)

\* the angle that means "raised" / "lowered" on channel k
UpAngle(k) ==
    CASE k = 1 -> DOT1_UP [] k = 2 -> DOT2_UP [] k = 3 -> DOT3_UP
      [] k = 4 -> DOT4_UP [] k = 5 -> DOT5_UP [] k = 6 -> DOT6_UP
DownAngle(k) ==
    CASE k = 1 -> DOT1_DOWN [] k = 2 -> DOT2_DOWN [] k = 3 -> DOT3_DOWN
      [] k = 4 -> DOT4_DOWN [] k = 5 -> DOT5_DOWN [] k = 6 -> DOT6_DOWN

RaisedDots(s) == {k \in Dots : s[k] = UpAngle(k)}
LoweredDots(s) == {k \in Dots : s[k] = DownAngle(k)}

(***************************************************************************)
(* Navigation arithmetic                                                   *)
(***************************************************************************)
\* the wrap-around test forgotten
NextPositionNoWrap(c) == c + 1

\* >= for >: Z is skipped
NextPositionWrapsEarly(c) == IF c + 1 >= TOTAL_LETTERS THEN 1 ELSE c + 1

\* currentPosition++; if (currentPosition > TOTAL_LETTERS) currentPosition = 1;
NextPosition(c) == IF c + 1 > TOTAL_LETTERS THEN 1 ELSE c + 1

\* >= for >
DebouncePassedInclusive(currentTime, lastInterruptTime) ==
    Elapsed(currentTime, lastInterruptTime) >= DEBOUNCE_DELAY

\* the test of both interrupt handlers
DebouncePassed(currentTime, lastInterruptTime) ==
    Elapsed(currentTime, lastInterruptTime) > DEBOUNCE_DELAY

\* > for >=
HoldElapsedStrict(t, last) == Elapsed(t, last) > AUDIO_DISPLAY_DELAY

\* the wrong constant
HoldElapsedAfterDebounce(t, last) == Elapsed(t, last) >= DEBOUNCE_DELAY

\* the hold-expiry test of loop()
HoldElapsed(t, last) == Elapsed(t, last) >= AUDIO_DISPLAY_DELAY

\* the negation dropped
ReadsFlagsWhileDisplaying(displaying) == displaying

\* the flags read and cleared whatever isDisplayingPattern is
ReadsFlagsAlways(displaying) == TRUE

\* if (!isDisplayingPattern): whether this iteration reads and clears the flags
ReadsFlags(displaying) == ~displaying

\* the flag left as it was
FlagNotCleared(flag) == flag

\* nextButtonPressed = false; prevButtonPressed = false: a flag after the read
FlagAfterRead(flag) == FALSE

\* clamps at A
PrevPositionClamped(c) == IF c - 1 < 1 THEN 1 ELSE c - 1

\* wraps to Y
PrevPositionOffByOne(c) == IF c - 1 < 1 THEN TOTAL_LETTERS - 1 ELSE c - 1

\* currentPosition--; if (currentPosition < 1) currentPosition = TOTAL_LETTERS;
PrevPosition(c) == IF c - 1 < 1 THEN TOTAL_LETTERS ELSE c - 1

\* 0-based track index
playAudioForLetterFromZero(ev, letterNumber) == Append(ev, Event("play", letterNumber - 1))

\* dfPlayer.play(letterNumber)
playAudioForLetter(ev, letterNumber) == Append(ev, Event("play", letterNumber))

(***************************************************************************)
(* Time.  millis() advances only while the main thread sleeps in delay();  *)
(* it stops at the end of the delay and at every moment at which the       *)
(* environment may produce a raw button edge.                              *)
(***************************************************************************)
Sleeping == now # wake

EdgeGaps == {BounceGap, DEBOUNCE_DELAY, RepeatGap}

\* a raw edge may arrive at time t on a button whose last accepted edge was at last
EdgeTime(t, last) ==
    \/ t % PressStep = 0
    \/ Elapsed(t, last) \in EdgeGaps

EdgesPossible == attached /\ edgesLeft > 0

NextStops ==
    {Elapsed(wake, now)} \cup
    (IF EdgesPossible
       THEN {PressStep - (now % PressStep)} \cup
            {Elapsed(After(last, g), now) :
                last \in {lastInterruptTimeNext, lastInterruptTimePrev}, g \in EdgeGaps}
       ELSE {})

TimeStep ==
    LET D == {d \in NextStops : d >= 1 /\ d <= Elapsed(wake, now)}
    IN  CHOOSE d \in D : \A e \in D : d <= e

Advance ==
    /\ Sleeping
    /\ TimeStep <= left
    /\ now' = After(now, TimeStep)
    /\ left' = left - TimeStep
    /\ UNCHANGED <<pc, wake, edgesLeft, attached, interruptsMasked, volume,
                   nextButtonPressed,
                   prevButtonPressed, lastInterruptTimeNext, lastInterruptTimePrev,
                   currentPosition, lastActionTime, isDisplayingPattern, nextPressed,
                   prevPressed, servo, events, arg, before, rawEdges, acceptedEdges,
                   transitions, atPoll>>

(***************************************************************************)
(* Interrupt service routines                                              *)
(***************************************************************************)
nextButtonISR ==
    /\ EdgesPossible
    /\ ~interruptsMasked
    /\ EdgeTime(now, lastInterruptTimeNext)
    /\ edgesLeft' = edgesLeft - 1
    /\ rawEdges' = [rawEdges EXCEPT !.next = Append(@, now)]
    /\ IF DebouncePassed(now, lastInterruptTimeNext)
         THEN /\ nextButtonPressed' = TRUE
              /\ lastInterruptTimeNext' = now
              /\ acceptedEdges' = [acceptedEdges EXCEPT !.next = Append(@, now)]
         ELSE UNCHANGED <<nextButtonPressed, lastInterruptTimeNext, acceptedEdges>>
    /\ UNCHANGED <<pc, wake, now, left, attached, interruptsMasked, volume,
                   prevButtonPressed,
                   lastInterruptTimePrev, currentPosition, lastActionTime,
                   isDisplayingPattern, nextPressed, prevPressed, servo, events,
                   arg, before, transitions, atPoll>>

\* pasted from nextButtonISR with the flag's name left as it was
prevButtonISRSetsNextFlag ==
    /\ EdgesPossible
    /\ ~interruptsMasked
    /\ EdgeTime(now, lastInterruptTimePrev)
    /\ edgesLeft' = edgesLeft - 1
    /\ rawEdges' = [rawEdges EXCEPT !.prev = Append(@, now)]
    /\ IF DebouncePassed(now, lastInterruptTimePrev)
         THEN /\ nextButtonPressed' = TRUE
              /\ lastInterruptTimePrev' = now
              /\ acceptedEdges' = [acceptedEdges EXCEPT !.prev = Append(@, now)]
         ELSE UNCHANGED <<nextButtonPressed, lastInterruptTimePrev, acceptedEdges>>
    /\ UNCHANGED <<pc, wake, now, left, attached, interruptsMasked, volume,
                   prevButtonPressed,
                   lastInterruptTimeNext, currentPosition, lastActionTime,
                   isDisplayingPattern, nextPressed, prevPressed, servo, events,
                   arg, before, transitions, atPoll>>

prevButtonISR ==
    /\ EdgesPossible
    /\ ~interruptsMasked
    /\ EdgeTime(now, lastInterruptTimePrev)
    /\ edgesLeft' = edgesLeft - 1
    /\ rawEdges' = [rawEdges EXCEPT !.prev = Append(@, now)]
    /\ IF DebouncePassed(now, lastInterruptTimePrev)
         THEN /\ prevButtonPressed' = TRUE
              /\ lastInterruptTimePrev' = now
              /\ acceptedEdges' = [acceptedEdges EXCEPT !.prev = Append(@, now)]
         ELSE UNCHANGED <<prevButtonPressed, lastInterruptTimePrev, acceptedEdges>>
    /\ UNCHANGED <<pc, wake, now, left, attached, interruptsMasked, volume,
                   nextButtonPressed,
                   lastInterruptTimeNext, currentPosition, lastActionTime,
                   isDisplayingPattern, nextPressed, prevPressed, servo, events,
                   arg, before, transitions, atPoll>>

(***************************************************************************)
(* setup()                                                                 *)
(***************************************************************************)
inputVars == <<nextButtonPressed, prevButtonPressed, lastInterruptTimeNext,
               lastInterruptTimePrev, edgesLeft, rawEdges, acceptedEdges,
               interruptsMasked>>
clockVars == <<now, left>>
navVars == <<currentPosition, lastActionTime, isDisplayingPattern>>
localVars == <<nextPressed, prevPressed>>
testVars == <<arg, before>>
histVars == <<transitions, atPoll>>

\* the attachInterrupt() calls forgotten
initializeButtonsNoAttach ==
    /\ pc = "setup"
    /\ pc' = "initializeServos"
    /\ UNCHANGED <<wake, attached, volume, servo, events>>
    /\ UNCHANGED <<inputVars, clockVars, navVars, localVars, testVars, histVars>>

\* pinMode() and attachInterrupt() for both buttons
initializeButtons ==
    /\ pc = "setup"
    /\ attached' = TRUE
    /\ pc' = "initializeServos"
    /\ UNCHANGED <<wake, volume, servo, events>>
    /\ UNCHANGED <<inputVars, clockVars, navVars, localVars, testVars, histVars>>

initializeServos ==
    /\ pc = "initializeServos"
    /\ pc' = "initializeDFPlayer"
    /\ UNCHANGED <<wake, attached, volume, servo, events>>
    /\ UNCHANGED <<inputVars, clockVars, navVars, localVars, testVars, histVars>>

\* began: the result of dfPlayer.begin(FPSerial)
initializeDFPlayer(began) ==
    /\ pc = "initializeDFPlayer"
    /\ IF ~began
         THEN /\ pc' = "halt"
              /\ wake' = After(now, HALT_DELAY)
              /\ UNCHANGED volume
         ELSE /\ pc' = "setupClear"
              /\ volume' = VOLUME_LEVEL
              /\ UNCHANGED wake
    /\ UNCHANGED <<attached, servo, events>>
    /\ UNCHANGED <<inputVars, clockVars, navVars, localVars, testVars, histVars>>

\* if for while: after one delay initializeDFPlayer() carries on
HaltOnce ==
    /\ pc = "halt"
    /\ now = wake
    /\ volume' = VOLUME_LEVEL
    /\ pc' = "setupClear"
    /\ UNCHANGED <<wake, attached, servo, events>>
    /\ UNCHANGED <<inputVars, clockVars, navVars, localVars, testVars, histVars>>

\* while (1) { delay(1000); }
Halt ==
    /\ pc = "halt"
    /\ now = wake
    /\ wake' = After(now, HALT_DELAY)
    /\ UNCHANGED <<pc, attached, volume, servo, events>>
    /\ UNCHANGED <<inputVars, clockVars, navVars, localVars, testVars, histVars>>

\* clearAllDots(), up to its delay
setupClearAllDots ==
    /\ pc = "setupClear"
    /\ servo' = clearAllDots(servo)
    /\ events' = events \o <<Event("clear", 0), Event("delay", SERVO_MOVEMENT_DELAY)>>
    /\ wake' = After(now, SERVO_MOVEMENT_DELAY)
    /\ pc' = "setupClearSettle"
    /\ UNCHANGED <<attached, volume>>
    /\ UNCHANGED <<inputVars, clockVars, navVars, localVars, testVars, histVars>>

\* delay(1000)
setupDelay ==
    /\ pc = "setupClearSettle"
    /\ now = wake
    /\ events' = Append(events, Event("delay", SETUP_CLEAR_DELAY))
    /\ wake' = After(now, SETUP_CLEAR_DELAY)
    /\ pc' = "setupDelay"
    /\ UNCHANGED <<attached, volume, servo>>
    /\ UNCHANGED <<inputVars, clockVars, navVars, localVars, testVars, histVars>>

\* the introduction started but not waited for
setupPlayIntroNoWait ==
    /\ pc = "setupDelay"
    /\ now = wake
    /\ events' = Append(events, Event("play", INTRO_AUDIO_TRACK))
    /\ pc' = "setupIntro"
    /\ UNCHANGED <<wake, attached, volume, servo>>
    /\ UNCHANGED <<inputVars, clockVars, navVars, localVars, testVars, histVars>>

\* dfPlayer.play(INTRO_AUDIO_TRACK); delay(INTRO_AUDIO_DURATION)
setupPlayIntro ==
    /\ pc = "setupDelay"
    /\ now = wake
    /\ events' = events \o <<Event("play", INTRO_AUDIO_TRACK),
                             Event("delay", INTRO_AUDIO_DURATION)>>
    /\ wake' = After(now, INTRO_AUDIO_DURATION)
    /\ pc' = "setupIntro"
    /\ UNCHANGED <<attached, volume, servo>>
    /\ UNCHANGED <<inputVars, clockVars, navVars, localVars, testVars, histVars>>

\* displayBraillePattern(currentPosition), up to its delay
setupDisplay ==
    /\ pc = "setupIntro"
    /\ now = wake
    /\ servo' = displayBraillePattern(servo, currentPosition)
    /\ events' = events \o <<Event("render", currentPosition),
                             Event("delay", SERVO_MOVEMENT_DELAY)>>
    /\ wake' = After(now, SERVO_MOVEMENT_DELAY)
    /\ pc' = "setupDisplay"
    /\ UNCHANGED <<attached, volume>>
    /\ UNCHANGED <<inputVars, clockVars, navVars, localVars, testVars, histVars>>

\* playAudioForLetter(currentPosition); lastActionTime = millis(); isDisplayingPattern = true
setupFinish ==
    /\ pc = "setupDisplay"
    /\ now = wake
    /\ events' = playAudioForLetter(events, currentPosition)
    /\ lastActionTime' = now
    /\ isDisplayingPattern' = TRUE
    /\ pc' = "loop"
    /\ UNCHANGED <<wake, attached, volume, servo, currentPosition>>
    /\ UNCHANGED <<inputVars, clockVars, localVars, testVars, histVars>>

(***************************************************************************)
(* loop()                                                                  *)
(***************************************************************************)
\* The head of loop(): the hold-expiry test and, when not displaying, the
\* read-and-clear of both flags between noInterrupts() and interrupts(), as
\* one step; SpecAtomic below takes the same code statement by statement.
loopPoll ==
    /\ pc = "loop"
    /\ now = wake
    /\ LET displaying == isDisplayingPattern /\ ~HoldElapsed(now, lastActionTime)
       IN  /\ isDisplayingPattern' = displaying
           /\ IF ReadsFlags(displaying)
                THEN /\ nextPressed' = nextButtonPressed
                     /\ prevPressed' = prevButtonPressed
                     /\ nextButtonPressed' = FlagAfterRead(nextButtonPressed)
                     /\ prevButtonPressed' = FlagAfterRead(prevButtonPressed)
                     /\ atPoll' = currentPosition
                     /\ pc' = "ifNextPressed"
                     /\ UNCHANGED wake
                ELSE /\ pc' = "loop"
                     /\ wake' = After(now, LOOP_DELAY)
                     /\ UNCHANGED <<nextPressed, prevPressed, nextButtonPressed,
                                    prevButtonPressed, atPoll>>
    /\ UNCHANGED <<attached, volume, servo, events, currentPosition, lastActionTime,
                   lastInterruptTimeNext, lastInterruptTimePrev, edgesLeft, rawEdges,
                   acceptedEdges, transitions, interruptsMasked>>
    /\ UNCHANGED <<clockVars, testVars>>

\* if (nextPressed) is false
skipNext ==
    /\ pc = "ifNextPressed"
    /\ ~nextPressed
    /\ pc' = "ifPrevPressed"
    /\ UNCHANGED <<wake, attached, volume, servo, events>>
    /\ UNCHANGED <<inputVars, clockVars, navVars, localVars, testVars, histVars>>

\* the if (nextPressed) test dropped
handleNextButtonBeginUnconditional ==
    /\ pc = "ifNextPressed"
    /\ currentPosition' = NextPosition(currentPosition)
    /\ events' = <<Event("logNext", currentPosition'), Event("clear", 0),
                   Event("delay", SERVO_MOVEMENT_DELAY)>>
    /\ servo' = clearAllDots(servo)
    /\ wake' = After(now, SERVO_MOVEMENT_DELAY)
    /\ pc' = "nextClear"
    /\ transitions' = [transitions EXCEPT !.next = @ + 1]
    /\ UNCHANGED <<attached, volume, lastActionTime, isDisplayingPattern, atPoll>>
    /\ UNCHANGED <<inputVars, clockVars, localVars, testVars>>

\* handleNextButton(), up to the delay of clearAllDots()
handleNextButtonBegin ==
    /\ pc = "ifNextPressed"
    /\ nextPressed
    /\ currentPosition' = NextPosition(currentPosition)
    /\ events' = <<Event("logNext", currentPosition'), Event("clear", 0),
                   Event("delay", SERVO_MOVEMENT_DELAY)>>
    /\ servo' = clearAllDots(servo)
    /\ wake' = After(now, SERVO_MOVEMENT_DELAY)
    /\ pc' = "nextClear"
    /\ transitions' = [transitions EXCEPT !.next = @ + 1]
    /\ UNCHANGED <<attached, volume, lastActionTime, isDisplayingPattern, atPoll>>
    /\ UNCHANGED <<inputVars, clockVars, localVars, testVars>>

\* handleNextButton(): displayBraillePattern(currentPosition), up to its delay
handleNextButtonDisplay ==
    /\ pc = "nextClear"
    /\ now = wake
    /\ servo' = displayBraillePattern(servo, currentPosition)
    /\ events' = events \o <<Event("render", currentPosition),
                             Event("delay", SERVO_MOVEMENT_DELAY)>>
    /\ wake' = After(now, SERVO_MOVEMENT_DELAY)
    /\ pc' = "nextDisplay"
    /\ UNCHANGED <<attached, volume>>
    /\ UNCHANGED <<inputVars, clockVars, navVars, localVars, testVars, histVars>>

\* the playAudioForLetter() call forgotten
handleNextButtonEndNoPlay ==
    /\ pc = "nextDisplay"
    /\ now = wake
    /\ lastActionTime' = now
    /\ isDisplayingPattern' = TRUE
    /\ pc' = "ifPrevPressed"
    /\ UNCHANGED <<wake, attached, volume, servo, events, currentPosition>>
    /\ UNCHANGED <<inputVars, clockVars, localVars, testVars, histVars>>

\* handleNextButton(): playAudioForLetter, lastActionTime, isDisplayingPattern, return
handleNextButtonEnd ==
    /\ pc = "nextDisplay"
    /\ now = wake
    /\ events' = playAudioForLetter(events, currentPosition)
    /\ lastActionTime' = now
    /\ isDisplayingPattern' = TRUE
    /\ pc' = "ifPrevPressed"
    /\ UNCHANGED <<wake, attached, volume, servo, currentPosition>>
    /\ UNCHANGED <<inputVars, clockVars, localVars, testVars, histVars>>

\* if (prevPressed) is false; delay(10)
skipPrev ==
    /\ pc = "ifPrevPressed"
    /\ ~prevPressed
    /\ pc' = "loop"
    /\ wake' = After(now, LOOP_DELAY)
    /\ UNCHANGED <<attached, volume, servo, events>>
    /\ UNCHANGED <<inputVars, clockVars, navVars, localVars, testVars, histVars>>

\* the clearAllDots() call forgotten
handlePreviousButtonBeginNoClear ==
    /\ pc = "ifPrevPressed"
    /\ prevPressed
    /\ currentPosition' = PrevPosition(currentPosition)
    /\ events' = <<Event("logPrev", currentPosition')>>
    /\ pc' = "prevClear"
    /\ transitions' = [transitions EXCEPT !.prev = @ + 1]
    /\ UNCHANGED <<wake, attached, volume, servo, lastActionTime, isDisplayingPattern, atPoll>>
    /\ UNCHANGED <<inputVars, clockVars, localVars, testVars>>

\* handlePreviousButton(), up to the delay of clearAllDots()
handlePreviousButtonBegin ==
    /\ pc = "ifPrevPressed"
    /\ prevPressed
    /\ currentPosition' = PrevPosition(currentPosition)
    /\ events' = <<Event("logPrev", currentPosition'), Event("clear", 0),
                   Event("delay", SERVO_MOVEMENT_DELAY)>>
    /\ servo' = clearAllDots(servo)
    /\ wake' = After(now, SERVO_MOVEMENT_DELAY)
    /\ pc' = "prevClear"
    /\ transitions' = [transitions EXCEPT !.prev = @ + 1]
    /\ UNCHANGED <<attached, volume, lastActionTime, isDisplayingPattern, atPoll>>
    /\ UNCHANGED <<inputVars, clockVars, localVars, testVars>>

\* handlePreviousButton(): displayBraillePattern(currentPosition), up to its delay
handlePreviousButtonDisplay ==
    /\ pc = "prevClear"
    /\ now = wake
    /\ servo' = displayBraillePattern(servo, currentPosition)
    /\ events' = events \o <<Event("render", currentPosition),
                             Event("delay", SERVO_MOVEMENT_DELAY)>>
    /\ wake' = After(now, SERVO_MOVEMENT_DELAY)
    /\ pc' = "prevDisplay"
    /\ UNCHANGED <<attached, volume>>
    /\ UNCHANGED <<inputVars, clockVars, navVars, localVars, testVars, histVars>>

\* handlePreviousButton(): playAudioForLetter, lastActionTime, isDisplayingPattern,
\* return; delay(10)
handlePreviousButtonEnd ==
    /\ pc = "prevDisplay"
    /\ now = wake
    /\ events' = playAudioForLetter(events, currentPosition)
    /\ lastActionTime' = now
    /\ isDisplayingPattern' = TRUE
    /\ pc' = "loop"
    /\ wake' = After(now, LOOP_DELAY)
    /\ UNCHANGED <<attached, volume, servo, currentPosition>>
    /\ UNCHANGED <<inputVars, clockVars, localVars, testVars, histVars>>

(***************************************************************************)
(* Specifications                                                          *)
(***************************************************************************)
Unwritten == [k \in Dots |-> -1]
NoEdges == [next |-> <<>>, prev |-> <<>>]
NoTransitions == [next |-> 0, prev |-> 0]

\* the state in which setup() is entered
Init ==
    /\ pc = "setup"
    /\ wake = 0
    /\ now = 0
    /\ left = MaxTime
    /\ edgesLeft = MaxEdges
    /\ attached = FALSE
    /\ interruptsMasked = FALSE
    /\ volume = -1
    /\ nextButtonPressed = FALSE
    /\ prevButtonPressed = FALSE
    /\ lastInterruptTimeNext = 0
    /\ lastInterruptTimePrev = 0
    /\ currentPosition = 1
    /\ lastActionTime = 0
    /\ isDisplayingPattern = FALSE
    /\ nextPressed = FALSE
    /\ prevPressed = FALSE
    /\ servo = Unwritten
    /\ events = <<>>
    /\ arg = 0
    /\ before = Unwritten
    /\ rawEdges = NoEdges
    /\ acceptedEdges = NoEdges
    /\ transitions = NoTransitions
    /\ atPoll = currentPosition

Next ==
    \/ Advance
    \/ nextButtonISR
    \/ prevButtonISR
    \/ initializeButtons
    \/ initializeServos
    \/ \E began \in BOOLEAN : initializeDFPlayer(began)
    \/ Halt
    \/ setupClearAllDots
    \/ setupDelay
    \/ setupPlayIntro
    \/ setupDisplay
    \/ setupFinish
    \/ loopPoll
    \/ skipNext
    \/ handleNextButtonBegin
    \/ handleNextButtonDisplay
    \/ handleNextButtonEnd
    \/ skipPrev
    \/ handlePreviousButtonBegin
    \/ handlePreviousButtonDisplay
    \/ handlePreviousButtonEnd

Spec == Init /\ [][Next]_vars

\* The main loop alone, started in READY on any letter: the state the program
\* is in when a NEXT transition into letter c (accepted at ReadyStart - 6000,
\* finished at ReadyStart - 5000) was followed by 5000 ms without a press, and
\* PREV has never been pressed.
InitReady ==
    /\ pc = "loop"
    /\ wake = ReadyStart
    /\ now = ReadyStart
    /\ left = LetterTime
    /\ edgesLeft = LetterEdges
    /\ attached = TRUE
    /\ interruptsMasked = FALSE
    /\ volume = VOLUME_LEVEL
    /\ nextButtonPressed = FALSE
    /\ prevButtonPressed = FALSE
    /\ lastInterruptTimeNext = ReadyStart - 3 * AUDIO_DISPLAY_DELAY
    /\ lastInterruptTimePrev = 0
    /\ currentPosition \in Letters
    /\ lastActionTime = ReadyStart - 3 * AUDIO_DISPLAY_DELAY + 2 * SERVO_MOVEMENT_DELAY
    /\ isDisplayingPattern = FALSE
    /\ nextPressed = FALSE
    /\ prevPressed = FALSE
    /\ servo = displayBraillePattern(clearAllDots(Unwritten), currentPosition)
    /\ events = <<Event("logNext", currentPosition), Event("clear", 0),
                  Event("delay", SERVO_MOVEMENT_DELAY),
                  Event("render", currentPosition),
                  Event("delay", SERVO_MOVEMENT_DELAY),
                  Event("play", currentPosition)>>
    /\ arg = 0
    /\ before = Unwritten
    /\ rawEdges = NoEdges
    /\ acceptedEdges = NoEdges
    /\ transitions = NoTransitions
    /\ atPoll = currentPosition

NextLoop ==
    \/ Advance
    \/ nextButtonISR
    \/ prevButtonISR
    \/ loopPoll
    \/ skipNext
    \/ handleNextButtonBegin
    \/ handleNextButtonDisplay
    \/ handleNextButtonEnd
    \/ skipPrev
    \/ handlePreviousButtonBegin
    \/ handlePreviousButtonDisplay
    \/ handlePreviousButtonEnd

SpecLetters == InitReady /\ [][NextLoop]_vars

\* displayBraillePattern as a function of its argument and of the six angles
\* it finds: every argument in -ArgMin .. TOTAL_LETTERS + ArgMax, every
\* combination of raised and lowered channels.  The button handlers are
\* attached, as at every call the sketch makes, and may run while the function
\* sleeps in its settle delay.
InitPattern ==
    /\ pc = "call"
    /\ wake = 0
    /\ now = 0
    /\ left = SERVO_MOVEMENT_DELAY
    /\ edgesLeft = PatternEdges
    /\ attached = TRUE
    /\ interruptsMasked = FALSE
    /\ volume = -1
    /\ nextButtonPressed = FALSE
    /\ prevButtonPressed = FALSE
    /\ lastInterruptTimeNext = 0
    /\ lastInterruptTimePrev = 0
    /\ currentPosition = 1
    /\ lastActionTime = 0
    /\ isDisplayingPattern = FALSE
    /\ nextPressed = FALSE
    /\ prevPressed = FALSE
    /\ \E up \in SUBSET Dots :
          servo = [k \in Dots |-> IF k \in up THEN UpAngle(k) ELSE DownAngle(k)]
    /\ events = <<>>
    /\ arg \in (0 - ArgMin) .. (TOTAL_LETTERS + ArgMax)
    /\ before = servo
    /\ rawEdges = NoEdges
    /\ acceptedEdges = NoEdges
    /\ transitions = NoTransitions
    /\ atPoll = currentPosition

\* displayBraillePattern(arg) up to its delay: the writes of the switch, then
\* the start of delay(SERVO_MOVEMENT_DELAY)
callDisplayBraillePattern ==
    /\ pc = "call"
    /\ now = wake
    /\ servo' = displayBraillePattern(servo, arg)
    /\ events' = events \o <<Event("render", arg), Event("delay", SERVO_MOVEMENT_DELAY)>>
    /\ wake' = After(now, SERVO_MOVEMENT_DELAY)
    /\ pc' = "displayDelay"
    /\ UNCHANGED <<attached, volume>>
    /\ UNCHANGED <<inputVars, clockVars, navVars, localVars, testVars, histVars>>

\* the delay has elapsed: displayBraillePattern returns
returnDisplayBraillePattern ==
    /\ pc = "displayDelay"
    /\ now = wake
    /\ pc' = "return"
    /\ UNCHANGED <<wake, attached, volume, servo, events>>
    /\ UNCHANGED <<inputVars, clockVars, navVars, localVars, testVars, histVars>>

NextPattern ==
    \/ Advance
    \/ nextButtonISR
    \/ prevButtonISR
    \/ callDisplayBraillePattern
    \/ returnDisplayBraillePattern

SpecPattern == InitPattern /\ [][NextPattern]_vars

\* The navigation arithmetic of the two handlers alone, from every letter:
\* arg is the letter the run started at, events the letters it went through.
InitNav ==
    /\ pc = "nav"
    /\ wake = 0
    /\ now = 0
    /\ left = 0
    /\ edgesLeft = 0
    /\ attached = FALSE
    /\ interruptsMasked = FALSE
    /\ volume = -1
    /\ nextButtonPressed = FALSE
    /\ prevButtonPressed = FALSE
    /\ lastInterruptTimeNext = 0
    /\ lastInterruptTimePrev = 0
    /\ currentPosition \in Letters
    /\ lastActionTime = 0
    /\ isDisplayingPattern = FALSE
    /\ nextPressed = FALSE
    /\ prevPressed = FALSE
    /\ servo = Unwritten
    /\ events = <<>>
    /\ arg = currentPosition
    /\ before = Unwritten
    /\ rawEdges = NoEdges
    /\ acceptedEdges = NoEdges
    /\ transitions = NoTransitions
    /\ atPoll = currentPosition

\* changes of direction in a sequence of steps
RECURSIVE Turns(_)
Turns(ev) ==
    IF Len(ev) < 2
      THEN 0
      ELSE Turns(SubSeq(ev, 1, Len(ev) - 1)) +
           (IF ev[Len(ev)].op # ev[Len(ev) - 1].op THEN 1 ELSE 0)

NavStepAllowed(op) ==
    /\ pc = "nav"
    /\ Len(events) < TOTAL_LETTERS + NavExtra
    /\ Turns(Append(events, Event(op, 0))) <= NavTurns

\* currentPosition++ and the wrap-around test of handleNextButton()
callNextPosition ==
    /\ NavStepAllowed("next")
    /\ currentPosition' = NextPosition(currentPosition)
    /\ events' = Append(events, Event("next", currentPosition'))
    /\ transitions' = [transitions EXCEPT !.next = @ + 1]
    /\ UNCHANGED <<pc, wake, attached, volume, servo, lastActionTime,
                   isDisplayingPattern, atPoll>>
    /\ UNCHANGED <<inputVars, clockVars, localVars, testVars>>

\* currentPosition-- and the wrap-around test of handlePreviousButton()
callPrevPosition ==
    /\ NavStepAllowed("prev")
    /\ currentPosition' = PrevPosition(currentPosition)
    /\ events' = Append(events, Event("prev", currentPosition'))
    /\ transitions' = [transitions EXCEPT !.prev = @ + 1]
    /\ UNCHANGED <<pc, wake, attached, volume, servo, lastActionTime,
                   isDisplayingPattern, atPoll>>
    /\ UNCHANGED <<inputVars, clockVars, localVars, testVars>>

NextNav ==
    \/ callNextPosition
    \/ callPrevPosition

SpecNav == InitNav /\ [][NextNav]_vars

(***************************************************************************)
(* Properties                                                              *)
(***************************************************************************)
\* Grade-1 Braille, as listed in section 4.1 of the specification
BrailleDots(n) ==
    CASE n = 1  -> {1}          [] n = 2  -> {1,2}        [] n = 3  -> {1,4}
      [] n = 4  -> {1,4,5}      [] n = 5  -> {1,5}        [] n = 6  -> {1,2,4}
      [] n = 7  -> {1,2,4,5}    [] n = 8  -> {1,2,5}      [] n = 9  -> {2,4}
      [] n = 10 -> {2,4,5}      [] n = 11 -> {1,3}        [] n = 12 -> {1,2,3}
      [] n = 13 -> {1,3,4}      [] n = 14 -> {1,3,4,5}    [] n = 15 -> {1,3,5}
      [] n = 16 -> {1,2,3,4}    [] n = 17 -> {1,2,3,4,5}  [] n = 18 -> {1,2,3,5}
      [] n = 19 -> {2,3,4}      [] n = 20 -> {2,3,4,5}    [] n = 21 -> {1,3,6}
      [] n = 22 -> {1,2,3,6}    [] n = 23 -> {2,4,5,6}    [] n = 24 -> {1,3,4,6}
      [] n = 25 -> {1,3,4,5,6}  [] n = 26 -> {1,3,5,6}

SetupDone == pc \in {"loop", "ifNextPressed", "nextClear", "nextDisplay",
                     "ifPrevPressed", "prevClear", "prevDisplay"}

\* C1: the current letter index is in 1..26 at the end of setup(), at the end
\* of both handlers, at every loop() iteration boundary and at every call of
\* displayBraillePattern and playAudioForLetter (here: in every state, the
\* handlers' increment and wrap-around being one step).
C1_LetterInRange == currentPosition \in 1..26

\* C1 witness: handleNextButton() has just returned after wrapping from Z to A,
\* and PREV had wrapped from A to Z before
C1_WrappedBothWays ==
    /\ pc = "ifPrevPressed"
    /\ transitions = [next |-> 1, prev |-> 1]
    /\ events # <<>>
    /\ events[1] = Event("logNext", 1)
    /\ currentPosition = 1

\* C2: after setup(), at every loop() iteration boundary the raised channels
\* are exactly the Braille dots of the current letter, and the others are lowered.
C2_PatternOfCurrent ==
    pc = "loop" =>
        /\ RaisedDots(servo) = BrailleDots(currentPosition)
        /\ LoweredDots(servo) = Dots \ BrailleDots(currentPosition)

\* C2 witness: an iteration boundary after a NEXT and a PREV transition, in READY
C2_BoundaryAfterTransitions ==
    /\ pc = "loop"
    /\ transitions.next >= 1
    /\ transitions.prev >= 1
    /\ ~isDisplayingPattern
    /\ RaisedDots(servo) = BrailleDots(currentPosition)

\* C3: from all six channels lowered, displayBraillePattern(n) raises exactly
\* the dots listed for letter n when n is in 1..26, and writes nothing (no
\* pattern) for any other n.
C3_PatternTable ==
    (pc = "return" /\ LoweredDots(before) = Dots) =>
        IF arg \in 1..26
          THEN /\ RaisedDots(servo) = BrailleDots(arg)
               /\ LoweredDots(servo) = Dots \ BrailleDots(arg)
          ELSE servo = before

\* C3 witness: letter Y rendered from the neutral pattern
C3_RenderedY ==
    /\ pc = "return"
    /\ LoweredDots(before) = Dots
    /\ arg = 25
    /\ RaisedDots(servo) = {1, 3, 4, 5, 6}

\* the calls of one NEXT or PREV transition into letter c, in the order made
TransitionEvents(log, c) ==
    <<Event(log, c), Event("clear", 0), Event("delay", SERVO_MOVEMENT_DELAY),
      Event("render", c), Event("delay", SERVO_MOVEMENT_DELAY), Event("play", c)>>

\* the calls of setup() after the initialisation, in the order made
StartupEvents ==
    <<Event("clear", 0), Event("delay", SERVO_MOVEMENT_DELAY),
      Event("delay", SETUP_CLEAR_DELAY), Event("play", INTRO_AUDIO_TRACK),
      Event("delay", INTRO_AUDIO_DURATION), Event("render", 1),
      Event("delay", SERVO_MOVEMENT_DELAY), Event("play", 1)>>

\* millis() when setup() returns on a successful boot
StartupDuration ==
    SERVO_MOVEMENT_DELAY + SETUP_CLEAR_DELAY + INTRO_AUDIO_DURATION + SERVO_MOVEMENT_DELAY

\* C4: a press accepted while the pattern is displayed is not lost.  A pending
\* flag is cleared only by a poll made in READY, which copies it into the
\* snapshot; a poll in READY takes every pending flag, and only a poll made
\* during the hold leaves the flags unread; a handler runs only for
\* a flag in the snapshot; and a button with a single accepted press has had
\* no transition while the press is pending and exactly one afterwards.
C4_SinglePress ==
    /\ Len(acceptedEdges.next) = 1 =>
         transitions.next =
           (IF nextButtonPressed \/ (pc = "ifNextPressed" /\ nextPressed) THEN 0 ELSE 1)
    /\ Len(acceptedEdges.prev) = 1 =>
         transitions.prev =
           (IF \/ prevButtonPressed
               \/ (pc \in {"ifNextPressed", "nextClear", "nextDisplay", "ifPrevPressed"}
                   /\ prevPressed)
            THEN 0 ELSE 1)

C4_FlagStep ==
    /\ (nextButtonPressed /\ ~nextButtonPressed') =>
         (pc = "loop" /\ pc' = "ifNextPressed" /\ nextPressed' /\ ~isDisplayingPattern')
    /\ (prevButtonPressed /\ ~prevButtonPressed') =>
         (pc = "loop" /\ pc' = "ifNextPressed" /\ prevPressed' /\ ~isDisplayingPattern')
    /\ (pc = "loop" /\ pc' = "ifNextPressed") =>
         (nextPressed' = nextButtonPressed /\ prevPressed' = prevButtonPressed)
    /\ (pc = "loop" /\ wake' # wake) => (isDisplayingPattern /\ isDisplayingPattern')
    /\ transitions'.next # transitions.next =>
         (pc = "ifNextPressed" /\ nextPressed /\ transitions'.next = transitions.next + 1)
    /\ transitions'.prev # transitions.prev =>
         (pc = "ifPrevPressed" /\ prevPressed /\ transitions'.prev = transitions.prev + 1)

C4_DeferredNotLost == [] C4_SinglePress /\ [][C4_FlagStep]_vars

\* C4 witness: NEXT was accepted once, inside the first display hold, and its
\* transition started in the poll in which the hold expired
C4_PressInHoldProcessed ==
    /\ pc = "nextClear"
    /\ Len(acceptedEdges.next) = 1
    /\ acceptedEdges.next[1] > StartupDuration
    /\ acceptedEdges.next[1] < StartupDuration + AUDIO_DISPLAY_DELAY
    /\ now = StartupDuration + AUDIO_DISPLAY_DELAY
    /\ transitions.next = 1
    /\ currentPosition = 2

AfterSetup(times) == \A i \in DOMAIN times : times[i] >= StartupDuration

\* C5 as claimed: once nothing is pending on a button, it has had as many
\* transitions as edges accepted (here: edges that arrived after setup()).
C5_OneTransitionPerAcceptedEdge ==
    /\ (pc = "loop" /\ ~nextButtonPressed /\ AfterSetup(acceptedEdges.next)) =>
         transitions.next = Len(acceptedEdges.next)
    /\ (pc = "loop" /\ ~prevButtonPressed /\ AfterSetup(acceptedEdges.prev)) =>
         transitions.prev = Len(acceptedEdges.prev)

\* C5 amended: accepted edges are merged, never dropped without effect.  Per
\* button there are at most as many transitions as accepted edges, fewer while
\* the flag is pending, and at least one once an accepted edge is no longer
\* pending or waiting in the snapshot.
C5_AcceptedEdgesMerge ==
    /\ transitions.next <= Len(acceptedEdges.next)
    /\ transitions.prev <= Len(acceptedEdges.prev)
    /\ nextButtonPressed => transitions.next < Len(acceptedEdges.next)
    /\ prevButtonPressed => transitions.prev < Len(acceptedEdges.prev)
    /\ (pc = "ifNextPressed" /\ nextPressed) => transitions.next < Len(acceptedEdges.next)
    /\ (pc \in {"ifNextPressed", "nextClear", "nextDisplay", "ifPrevPressed"} /\ prevPressed)
          => transitions.prev < Len(acceptedEdges.prev)
    /\ (pc = "loop" /\ ~nextButtonPressed /\ acceptedEdges.next # <<>>)
          => transitions.next >= 1
    /\ (pc = "loop" /\ ~prevButtonPressed /\ acceptedEdges.prev # <<>>)
          => transitions.prev >= 1

\* C5 witness: two NEXT edges RepeatGap apart, both accepted during the first
\* display hold, have produced one transition, and the system is in READY again
C5_TwoEdgesOneTransition ==
    /\ pc = "loop"
    /\ ~isDisplayingPattern
    /\ ~nextButtonPressed
    /\ Len(acceptedEdges.next) = 2
    /\ acceptedEdges.next[1] > StartupDuration
    /\ acceptedEdges.next[2] = acceptedEdges.next[1] + RepeatGap
    /\ acceptedEdges.next[2] < StartupDuration + AUDIO_DISPLAY_DELAY
    /\ transitions.next = 1
    /\ currentPosition = 2

\* C6: a raw edge at time t sets its button's flag and timestamp if and only
\* if t - last accepted time > 250; otherwise it changes neither.
C6_EdgeStep ==
    /\ Len(rawEdges'.next) # Len(rawEdges.next) =>
         IF now - lastInterruptTimeNext > 250
           THEN nextButtonPressed' /\ lastInterruptTimeNext' = now
           ELSE /\ nextButtonPressed' = nextButtonPressed
                /\ lastInterruptTimeNext' = lastInterruptTimeNext
    /\ Len(rawEdges'.prev) # Len(rawEdges.prev) =>
         IF now - lastInterruptTimePrev > 250
           THEN prevButtonPressed' /\ lastInterruptTimePrev' = now
           ELSE /\ prevButtonPressed' = prevButtonPressed
                /\ lastInterruptTimePrev' = lastInterruptTimePrev

C6_DebounceRule == [][C6_EdgeStep]_vars

\* C6 witness: two raw NEXT edges BounceGap apart, the first accepted, the
\* second discarded without moving the timestamp
C6_BounceDiscarded ==
    /\ Len(rawEdges.next) = 2
    /\ rawEdges.next[2] = rawEdges.next[1] + BounceGap
    /\ acceptedEdges.next = <<rawEdges.next[1]>>
    /\ lastInterruptTimeNext = rawEdges.next[1]
    /\ nextButtonPressed

\* C7: with both flags in the snapshot, NEXT is applied first, PREV is then
\* applied to the updated letter, each with its own clear, render and play,
\* and the letter after the poll is the letter before it.
C7_BothPending ==
    (nextPressed /\ prevPressed) =>
        /\ pc = "ifNextPressed" => currentPosition = atPoll
        /\ pc \in {"nextClear", "nextDisplay", "ifPrevPressed"} =>
             /\ currentPosition = (IF atPoll = 26 THEN 1 ELSE atPoll + 1)
             /\ events[1] = Event("logNext", currentPosition)
        /\ pc = "ifPrevPressed" => events = TransitionEvents("logNext", currentPosition)
        /\ pc \in {"prevClear", "prevDisplay", "loop"} =>
             /\ currentPosition = atPoll
             /\ events[1] = Event("logPrev", atPoll)
        /\ pc = "loop" => events = TransitionEvents("logPrev", atPoll)

\* C7 witness: both flags were taken at Z; the poll is over and the letter is Z
C7_BothPendingAtZ ==
    /\ pc = "loop"
    /\ nextPressed
    /\ prevPressed
    /\ atPoll = 26
    /\ currentPosition = 26
    /\ events = TransitionEvents("logPrev", 26)

\* C8 as claimed: whenever a handler is about to start, isDisplayingPattern is
\* false and at least 2000 ms have passed since lastActionTime.
C8_HandlersStartInReady ==
    /\ (pc = "ifNextPressed" /\ nextPressed) =>
         (~isDisplayingPattern /\ now - lastActionTime >= 2000)
    /\ (pc = "ifPrevPressed" /\ prevPressed) =>
         (~isDisplayingPattern /\ now - lastActionTime >= 2000)

\* C8 amended: the flags are read only in READY, and handleNextButton() always
\* starts there; handlePreviousButton() starts there too unless it follows
\* handleNextButton() in the same poll, and then it starts in DISPLAYING, at
\* the moment lastActionTime was set.
C8_PollsInReady ==
    /\ pc = "ifNextPressed" =>
         (~isDisplayingPattern /\ now - lastActionTime >= 2000)
    /\ (pc = "ifPrevPressed" /\ prevPressed) =>
         IF nextPressed
           THEN isDisplayingPattern /\ lastActionTime = now
           ELSE ~isDisplayingPattern /\ now - lastActionTime >= 2000

\* C8 witness: handlePreviousButton() about to start right after handleNextButton()
C8_PrevStartsWhileDisplaying ==
    /\ pc = "ifPrevPressed"
    /\ nextPressed
    /\ prevPressed
    /\ isDisplayingPattern
    /\ lastActionTime = now

\* C9: every track played for a letter is the current letter index, every
\* track is in 1..27, and 27 is played only by setup() as the introduction.
C9_TrackIsCurrentLetter ==
    \A i \in DOMAIN events :
        events[i].op = "play" =>
            /\ events[i].arg \in 1..27
            /\ IF events[i].arg = 27
                 THEN i = 4 /\ events[1].op = "clear"
                 ELSE events[i].arg = currentPosition

\* C9 witness: PREV from A has played track 26
C9_PlayedZ ==
    /\ pc = "loop"
    /\ currentPosition = 26
    /\ events = TransitionEvents("logPrev", 26)

\* C10: on a successful boot setup() clears the dots, plays track 27, waits,
\* renders letter 1, plays track 1, sets lastActionTime and enters DISPLAYING,
\* in this order; the letter is 1 when loop() first runs.
C10_StartupOrder ==
    /\ pc \in {"setup", "initializeServos", "initializeDFPlayer", "setupClear", "halt"} =>
         (events = <<>> /\ servo = Unwritten)
    /\ pc = "setupClearSettle" =>
         (events = SubSeq(StartupEvents, 1, 2) /\ LoweredDots(servo) = Dots)
    /\ pc = "setupDelay" =>
         (events = SubSeq(StartupEvents, 1, 3) /\ LoweredDots(servo) = Dots)
    /\ pc = "setupIntro" =>
         (events = SubSeq(StartupEvents, 1, 5) /\ LoweredDots(servo) = Dots)
    /\ pc = "setupDisplay" =>
         (events = SubSeq(StartupEvents, 1, 7) /\ RaisedDots(servo) = {1})
    /\ pc \in {"setup", "initializeServos", "initializeDFPlayer", "setupClear",
               "setupClearSettle", "setupDelay", "setupIntro", "setupDisplay"} =>
         (~isDisplayingPattern /\ lastActionTime = 0 /\ currentPosition = 1)
    /\ (SetupDone /\ transitions = NoTransitions) =>
         /\ events = StartupEvents
         /\ currentPosition = 1
         /\ lastActionTime = StartupDuration
    /\ (pc = "loop" /\ now = lastActionTime /\ transitions = NoTransitions) =>
         isDisplayingPattern

\* C10 witness: setup() has just returned
C10_SetupReturned ==
    /\ pc = "loop"
    /\ now = wake
    /\ now = lastActionTime
    /\ events = StartupEvents
    /\ isDisplayingPattern
    /\ currentPosition = 1

\* the letter the run of SpecNav was at before its i-th step
PositionBefore(i) == IF i = 1 THEN arg ELSE events[i - 1].arg

AllSteps(ev, op) == \A i \in DOMAIN ev : ev[i].op = op

Visited(ev) == {ev[i].arg : i \in DOMAIN ev}

\* C11: from every letter, 26 consecutive NEXT steps (and 26 consecutive PREV
\* steps) return to the starting letter and visit every letter exactly once;
\* a PREV right after a NEXT, and a NEXT right after a PREV, restores the letter.
C11_FullCycle ==
    pc = "nav" =>
        /\ \A op \in {"next", "prev"} :
              (Len(events) >= 26 /\ AllSteps(SubSeq(events, 1, 26), op)) =>
                  /\ events[26].arg = arg
                  /\ Visited(SubSeq(events, 1, 26)) = 1..26
        /\ \A i \in 2..Len(events) :
              events[i].op # events[i - 1].op => events[i].arg = PositionBefore(i - 1)

\* C11 witness: 26 NEXT steps from A are back at A
C11_CycleFromA ==
    /\ pc = "nav"
    /\ arg = 1
    /\ Len(events) = 26
    /\ AllSteps(events, "next")
    /\ currentPosition = 1

\* C12: from every letter c, NEXT yields c + 1 if c < 26 and 1 if c = 26; PREV
\* yields c - 1 if c > 1 and 26 if c = 1.
C12_StepValue ==
    pc = "nav" =>
        /\ \A i \in DOMAIN events :
              LET c == PositionBefore(i)
              IN  events[i].arg =
                    IF events[i].op = "next"
                      THEN (IF c < 26 THEN c + 1 ELSE 1)
                      ELSE (IF c > 1 THEN c - 1 ELSE 26)
        /\ events # <<>> => currentPosition = events[Len(events)].arg

\* C12 witness: NEXT from Z gave A, and PREV from A gave Z
C12_BothWraps ==
    /\ pc = "nav"
    /\ arg = 26
    /\ events = <<Event("next", 1), Event("prev", 26)>>
    /\ currentPosition = 26

\* C13: when dfPlayer.begin() fails the system halts for ever: in the halt no
\* track has been played, no servo has been written, the volume has not been
\* set, setup() has not completed (the hold timer was never started), no
\* handler has run, the letter is still 1, and the halt is never left.
C13_HaltState ==
    pc = "halt" =>
        /\ events = <<>>
        /\ servo = Unwritten
        /\ volume = -1
        /\ currentPosition = 1
        /\ ~isDisplayingPattern
        /\ lastActionTime = 0
        /\ transitions = NoTransitions

C13_HaltStep == pc = "halt" => pc' = "halt"

C13_FatalHalt == [] C13_HaltState /\ [][C13_HaltStep]_vars

\* C13 witness: the halt loop has gone round three times
C13_HaltedForLong ==
    /\ pc = "halt"
    /\ now >= 3 * HALT_DELAY
    /\ volume = -1
    /\ servo = Unwritten

\* C14 as claimed: in the halt no raw edge gets a handler to set a flag or
\* to move a timestamp.
C14_HaltEdgeIgnored ==
    pc = "halt" =>
        /\ nextButtonPressed' = nextButtonPressed
        /\ prevButtonPressed' = prevButtonPressed
        /\ lastInterruptTimeNext' = lastInterruptTimeNext
        /\ lastInterruptTimePrev' = lastInterruptTimePrev

C14_NoInterruptInHalt == [][C14_HaltEdgeIgnored]_vars

\* C14 amended: the handlers are attached before the audio module is
\* initialised and stay attached in the halt, so a raw edge there is handled
\* as anywhere else; what the halt rules out is the main loop: an accepted
\* press stays pending for ever, its flag is never read or cleared, and no
\* transition happens.
C14_HaltState ==
    pc = "halt" =>
        /\ attached
        /\ nextButtonPressed = (acceptedEdges.next # <<>>)
        /\ prevButtonPressed = (acceptedEdges.prev # <<>>)
        /\ ~nextPressed
        /\ ~prevPressed
        /\ transitions = NoTransitions

C14_HaltEdgeStep ==
    pc = "halt" =>
        /\ nextButtonPressed => nextButtonPressed'
        /\ prevButtonPressed => prevButtonPressed'
        /\ Len(rawEdges'.next) # Len(rawEdges.next) =>
             (nextButtonPressed' = (nextButtonPressed \/ now - lastInterruptTimeNext > 250))
        /\ Len(rawEdges'.prev) # Len(rawEdges.prev) =>
             (prevButtonPressed' = (prevButtonPressed \/ now - lastInterruptTimePrev > 250))

C14_HaltKeepsPressesPending == [] C14_HaltState /\ [][C14_HaltEdgeStep]_vars

\* C14 witness: a NEXT edge that arrived in the halt was accepted and is pending
C14_PressAcceptedInHalt ==
    /\ pc = "halt"
    /\ nextButtonPressed
    /\ lastInterruptTimeNext >= HALT_DELAY
    /\ acceptedEdges.next = <<lastInterruptTimeNext>>

\* C15: an iteration of loop() in which isDisplayingPattern is true after the
\* hold-expiry test leaves both flags as they are and takes no snapshot, and
\* a snapshot is taken only in an iteration that is not in the hold.
C15_HoldPollStep ==
    /\ (pc = "loop" /\ now = wake /\ rawEdges' = rawEdges /\ isDisplayingPattern') =>
         /\ nextButtonPressed' = nextButtonPressed
         /\ prevButtonPressed' = prevButtonPressed
         /\ nextPressed' = nextPressed
         /\ prevPressed' = prevPressed
         /\ pc' = "loop"
    /\ (pc = "loop" /\ pc' = "ifNextPressed") => ~isDisplayingPattern'

C15_FlagsUntouchedInHold == [][C15_HoldPollStep]_vars

\* C15 witness: loop() has just gone round in the hold with NEXT pending
C15_PolledInHoldWithPending ==
    /\ pc = "loop"
    /\ isDisplayingPattern
    /\ nextButtonPressed
    /\ wake = now + LOOP_DELAY
    /\ lastActionTime < lastInterruptTimeNext
    /\ lastInterruptTimeNext < now

\* The main loop from the moment setup() returns on a successful boot during
\* which no button was touched: letter A is up, the first hold has begun.
InitHold ==
    /\ pc = "loop"
    /\ wake = StartupDuration
    /\ now = StartupDuration
    /\ left = HoldTime
    /\ edgesLeft = HoldEdges
    /\ attached = TRUE
    /\ interruptsMasked = FALSE
    /\ volume = VOLUME_LEVEL
    /\ nextButtonPressed = FALSE
    /\ prevButtonPressed = FALSE
    /\ lastInterruptTimeNext = 0
    /\ lastInterruptTimePrev = 0
    /\ currentPosition = 1
    /\ lastActionTime = StartupDuration
    /\ isDisplayingPattern = TRUE
    /\ nextPressed = FALSE
    /\ prevPressed = FALSE
    /\ servo = displayBraillePattern(clearAllDots(Unwritten), 1)
    /\ events = StartupEvents
    /\ arg = 0
    /\ before = Unwritten
    /\ rawEdges = NoEdges
    /\ acceptedEdges = NoEdges
    /\ transitions = NoTransitions
    /\ atPoll = currentPosition

\* the steps of the main thread in loop(), and the passing of time
NextLoopMain ==
    \/ Advance
    \/ loopPoll
    \/ skipNext
    \/ handleNextButtonBegin
    \/ handleNextButtonDisplay
    \/ handleNextButtonEnd
    \/ skipPrev
    \/ handlePreviousButtonBegin
    \/ handlePreviousButtonDisplay
    \/ handlePreviousButtonEnd

\* The main loop with a processor that keeps running and a clock that keeps
\* ticking (as far as the bound on the length of the run allows); button
\* edges may or may not come.
SpecHold == InitHold /\ [][NextLoop]_vars /\ WF_vars(NextLoopMain)

\* C16: isDisplayingPattern becomes false only at the head of a loop()
\* iteration in which now - lastActionTime >= 2000, and every iteration in
\* which that holds makes it false; so the hold never lasts beyond the first
\* poll at or after lastActionTime + 2000, and READY is reached whether or
\* not a button is pressed (given the run has the time left for it).
C16_ExpiryStep ==
    /\ (isDisplayingPattern /\ ~isDisplayingPattern') =>
         (pc = "loop" /\ now = wake /\ now - lastActionTime >= 2000)
    /\ (pc = "loop" /\ now = wake /\ rawEdges' = rawEdges /\ isDisplayingPattern
           /\ now - lastActionTime >= 2000) => ~isDisplayingPattern'

C16_Deadline ==
    (SetupDone /\ isDisplayingPattern) => now - lastActionTime < 2000 + LOOP_DELAY

\* the longest wait for READY: a PREV transition that follows a NEXT
\* transition in the same poll, its hold, and the poll tick
C16_TimeNeeded == 2 * SERVO_MOVEMENT_DELAY + AUDIO_DISPLAY_DELAY + LOOP_DELAY

C16_TimeBasedExpiry ==
    /\ [][C16_ExpiryStep]_vars
    /\ [] C16_Deadline
    /\ (SetupDone /\ isDisplayingPattern /\ left >= C16_TimeNeeded) ~> ~isDisplayingPattern

\* C16 witness: the first hold has expired with no button edge at all
C16_ReadyWithoutPress ==
    /\ pc = "ifNextPressed"
    /\ ~isDisplayingPattern
    /\ rawEdges = NoEdges
    /\ now = StartupDuration + AUDIO_DISPLAY_DELAY
    /\ lastActionTime = StartupDuration

Logs == {"logNext", "logPrev"}

\* C17 as claimed: in a transition the log entry is written after the
\* clear, the render and the play.
C17_LogAfterPlay ==
    \A i, j \in DOMAIN events :
        (events[i].op \in Logs /\ events[j].op \in {"clear", "render", "play"}) => j < i

\* C17 amended: a transition updates the letter, logs it, clears all dots,
\* renders the letter, plays its track, and only then sets lastActionTime
\* and enters DISPLAYING.
C17_Stage ==
    /\ pc = "nextClear" =>
         events = SubSeq(TransitionEvents("logNext", currentPosition), 1, 3)
    /\ pc = "nextDisplay" =>
         events = SubSeq(TransitionEvents("logNext", currentPosition), 1, 5)
    /\ pc = "prevClear" =>
         events = SubSeq(TransitionEvents("logPrev", currentPosition), 1, 3)
    /\ pc = "prevDisplay" =>
         events = SubSeq(TransitionEvents("logPrev", currentPosition), 1, 5)
    /\ (pc \in {"ifPrevPressed", "loop", "ifNextPressed"} /\ events # <<>>
           /\ events[1].op \in Logs) =>
         /\ events = TransitionEvents(events[1].op, currentPosition)
         /\ lastActionTime <= now
    /\ (pc = "ifPrevPressed" /\ nextPressed) =>
         /\ events = TransitionEvents("logNext", currentPosition)
         /\ lastActionTime = now
         /\ isDisplayingPattern

C17_TimerStep ==
    (lastActionTime' # lastActionTime \/ (~isDisplayingPattern /\ isDisplayingPattern')) =>
        /\ pc \in {"nextDisplay", "prevDisplay", "setupDisplay"}
        /\ events' = Append(events, Event("play", currentPosition))
        /\ lastActionTime' = now
        /\ isDisplayingPattern'

C17_TransitionOrder == [] C17_Stage /\ [][C17_TimerStep]_vars

\* C17 witness: handleNextButton() has just returned from the transition A -> B
C17_NextTransitionDone ==
    /\ pc = "ifPrevPressed"
    /\ nextPressed
    /\ ~prevPressed
    /\ events = TransitionEvents("logNext", 2)
    /\ events[1].op = "logNext"
    /\ events[2].op = "clear"
    /\ lastActionTime = now
    /\ isDisplayingPattern

RenderCalls == {"setupIntro", "nextClear", "prevClear"}

\* C18: whenever displayBraillePattern is called (in setup() and in both
\* handlers) all six channels are lowered, and no channel is raised by any
\* other step: between two letters the cell is always in the neutral pattern.
C18_RenderStep ==
    /\ (pc \in RenderCalls /\ pc' # pc) =>
         /\ LoweredDots(servo) = Dots
         /\ RaisedDots(servo') = BrailleDots(currentPosition)
    /\ ~(RaisedDots(servo') \subseteq RaisedDots(servo)) => (pc \in RenderCalls /\ pc' # pc)

C18_NeutralBeforeRender == [][C18_RenderStep]_vars

\* C18 witness: the second transition of a double press has rendered its letter
C18_SecondOfDoublePress ==
    /\ pc = "prevDisplay"
    /\ nextPressed
    /\ prevPressed
    /\ transitions = [next |-> 1, prev |-> 1]
    /\ currentPosition = atPoll
    /\ RaisedDots(servo) = BrailleDots(currentPosition)

\* C19 as claimed: whatever the six channels were, after
\* displayBraillePattern(n) each one is raised if it is in the pattern of n
\* and lowered if it is not.
C19_RenderSetsAllSix ==
    (pc = "return" /\ arg \in 1..26) =>
        /\ RaisedDots(servo) = BrailleDots(arg)
        /\ LoweredDots(servo) = Dots \ BrailleDots(arg)

\* C19 amended: displayBraillePattern(n) writes the raised angle to the
\* channels of the pattern of n and writes nothing to the others, which stay
\* as they were.
C19_RenderOnlyRaises ==
    pc = "return" =>
        \A k \in Dots :
            servo[k] = IF arg \in 1..26 /\ k \in BrailleDots(arg)
                         THEN UpAngle(k)
                         ELSE before[k]

\* C19 witness: A rendered over a cell with all six dots up leaves them all up
C19_StaleDotsKept ==
    /\ pc = "return"
    /\ arg = 1
    /\ RaisedDots(before) = Dots
    /\ RaisedDots(servo) = Dots

(***************************************************************************)
(* The head of loop() statement by statement: an interrupt handler can run *)
(* between any two statements unless interrupts are masked.  An edge that  *)
(* arrives while they are masked is latched by the interrupt controller    *)
(* and its handler runs once interrupts() has been called: here, the       *)
(* handler's step is taken after the step of interrupts().                 *)
(***************************************************************************)
\* the hold-expiry test and if (!isDisplayingPattern)
loopHead ==
    /\ pc = "loop"
    /\ now = wake
    /\ LET displaying == isDisplayingPattern /\ ~HoldElapsed(now, lastActionTime)
       IN  /\ isDisplayingPattern' = displaying
           /\ IF ReadsFlags(displaying)
                THEN pc' = "noInterrupts" /\ UNCHANGED wake
                ELSE pc' = "loop" /\ wake' = After(now, LOOP_DELAY)
    /\ UNCHANGED <<attached, volume, servo, events, currentPosition, lastActionTime>>
    /\ UNCHANGED <<inputVars, clockVars, localVars, testVars, histVars>>

\* the noInterrupts() call forgotten
callNoInterruptsForgotten ==
    /\ pc = "noInterrupts"
    /\ pc' = "readNext"
    /\ UNCHANGED <<wake, attached, volume, servo, events>>
    /\ UNCHANGED <<inputVars, clockVars, navVars, localVars, testVars, histVars>>

\* noInterrupts()
callNoInterrupts ==
    /\ pc = "noInterrupts"
    /\ interruptsMasked' = TRUE
    /\ pc' = "readNext"
    /\ UNCHANGED <<wake, attached, volume, servo, events, nextButtonPressed,
                   prevButtonPressed, lastInterruptTimeNext, lastInterruptTimePrev,
                   edgesLeft, rawEdges, acceptedEdges>>
    /\ UNCHANGED <<clockVars, navVars, localVars, testVars, histVars>>

\* bool nextPressed = nextButtonPressed
readNextFlag ==
    /\ pc = "readNext"
    /\ nextPressed' = nextButtonPressed
    /\ pc' = "readPrev"
    /\ UNCHANGED <<wake, attached, volume, servo, events, prevPressed>>
    /\ UNCHANGED <<inputVars, clockVars, navVars, testVars, histVars>>

\* bool prevPressed = prevButtonPressed
readPrevFlag ==
    /\ pc = "readPrev"
    /\ prevPressed' = prevButtonPressed
    /\ pc' = "clearNext"
    /\ UNCHANGED <<wake, attached, volume, servo, events, nextPressed>>
    /\ UNCHANGED <<inputVars, clockVars, navVars, testVars, histVars>>

\* nextButtonPressed = false
clearNextFlag ==
    /\ pc = "clearNext"
    /\ nextButtonPressed' = FlagAfterRead(nextButtonPressed)
    /\ pc' = "clearPrev"
    /\ UNCHANGED <<wake, attached, volume, servo, events, prevButtonPressed,
                   lastInterruptTimeNext, lastInterruptTimePrev, edgesLeft, rawEdges,
                   acceptedEdges, interruptsMasked>>
    /\ UNCHANGED <<clockVars, navVars, localVars, testVars, histVars>>

\* prevButtonPressed = false
clearPrevFlag ==
    /\ pc = "clearPrev"
    /\ prevButtonPressed' = FlagAfterRead(prevButtonPressed)
    /\ pc' = "interrupts"
    /\ UNCHANGED <<wake, attached, volume, servo, events, nextButtonPressed,
                   lastInterruptTimeNext, lastInterruptTimePrev, edgesLeft, rawEdges,
                   acceptedEdges, interruptsMasked>>
    /\ UNCHANGED <<clockVars, navVars, localVars, testVars, histVars>>

\* interrupts()
callInterrupts ==
    /\ pc = "interrupts"
    /\ interruptsMasked' = FALSE
    /\ atPoll' = currentPosition
    /\ pc' = "ifNextPressed"
    /\ UNCHANGED <<wake, attached, volume, servo, events, nextButtonPressed,
                   prevButtonPressed, lastInterruptTimeNext, lastInterruptTimePrev,
                   edgesLeft, rawEdges, acceptedEdges, transitions>>
    /\ UNCHANGED <<clockVars, navVars, localVars, testVars>>

NextAtomic ==
    \/ Advance
    \/ nextButtonISR
    \/ prevButtonISR
    \/ loopHead
    \/ callNoInterrupts
    \/ readNextFlag
    \/ readPrevFlag
    \/ clearNextFlag
    \/ clearPrevFlag
    \/ callInterrupts
    \/ skipNext
    \/ handleNextButtonBegin
    \/ handleNextButtonDisplay
    \/ handleNextButtonEnd
    \/ skipPrev
    \/ handlePreviousButtonBegin
    \/ handlePreviousButtonDisplay
    \/ handlePreviousButtonEnd

SpecAtomic == InitHold /\ [][NextAtomic]_vars

CriticalSection == {"readNext", "readPrev", "clearNext", "clearPrev", "interrupts"}

\* C20: the read-and-clear is atomic with respect to both handlers.  No
\* handler runs between noInterrupts() and interrupts(); when both flags
\* have been read and none cleared, the snapshot is the flag pair of that
\* instant; a flag is cleared only if the snapshot has it; and an accepted
\* press is at every moment pending, in the snapshot, or already handled.
C20_Snapshot ==
    /\ pc \in CriticalSection => interruptsMasked
    /\ pc = "readPrev" => nextPressed = nextButtonPressed
    /\ pc = "clearNext" =>
         (nextPressed = nextButtonPressed /\ prevPressed = prevButtonPressed)
    /\ acceptedEdges.next # <<>> =>
         \/ nextButtonPressed
         \/ transitions.next >= 1
         \/ (nextPressed /\ pc \in {"readPrev", "clearNext", "clearPrev", "interrupts",
                                     "ifNextPressed"})
    /\ acceptedEdges.prev # <<>> =>
         \/ prevButtonPressed
         \/ transitions.prev >= 1
         \/ (prevPressed /\ pc \in {"clearNext", "clearPrev", "interrupts", "ifNextPressed",
                                     "nextClear", "nextDisplay", "ifPrevPressed"})

C20_Step ==
    /\ interruptsMasked => rawEdges' = rawEdges
    /\ (nextButtonPressed /\ ~nextButtonPressed') => (pc = "clearNext" /\ nextPressed)
    /\ (prevButtonPressed /\ ~prevButtonPressed') => (pc = "clearPrev" /\ prevPressed)

C20_AtomicReadAndClear == [] C20_Snapshot /\ [][C20_Step]_vars

\* C20 witness: both buttons gave an edge at the instant of a poll; NEXT came
\* before noInterrupts() and is in the snapshot, PREV came with the
\* interrupts masked, was handled after interrupts(), and is pending
C20_EdgesAroundSection ==
    /\ pc = "ifNextPressed"
    /\ ~interruptsMasked
    /\ nextPressed
    /\ ~nextButtonPressed
    /\ acceptedEdges.next = <<now>>
    /\ ~prevPressed
    /\ prevButtonPressed
    /\ acceptedEdges.prev = <<now>>

\* a step of nextButtonISR / of prevButtonISR
NextEdgeStep == Len(rawEdges'.next) # Len(rawEdges.next)
PrevEdgeStep == Len(rawEdges'.prev) # Len(rawEdges.prev)

\* C21: a NEXT edge, accepted or discarded, leaves the PREV flag and the PREV
\* timestamp unchanged, and a PREV edge those of NEXT; no edge changes the
\* letter, lastActionTime, isDisplayingPattern, a servo, the audio channel
\* or the position of the main thread.
C21_EdgeStep ==
    /\ NextEdgeStep =>
         /\ prevButtonPressed' = prevButtonPressed
         /\ lastInterruptTimePrev' = lastInterruptTimePrev
    /\ PrevEdgeStep =>
         /\ nextButtonPressed' = nextButtonPressed
         /\ lastInterruptTimeNext' = lastInterruptTimeNext
    /\ (NextEdgeStep \/ PrevEdgeStep) =>
         /\ currentPosition' = currentPosition
         /\ lastActionTime' = lastActionTime
         /\ isDisplayingPattern' = isDisplayingPattern
         /\ servo' = servo
         /\ events' = events
         /\ volume' = volume
         /\ pc' = pc
         /\ nextPressed' = nextPressed
         /\ prevPressed' = prevPressed

C21_HandlersOwnRecordOnly == [][C21_EdgeStep]_vars

\* C21 witness: in the first hold a PREV edge was accepted with a NEXT press
\* pending, and the NEXT record is as the NEXT edge left it
C21_PrevEdgeAfterNextEdge ==
    /\ SetupDone
    /\ isDisplayingPattern
    /\ Len(rawEdges.next) = 1
    /\ Len(rawEdges.prev) = 1
    /\ rawEdges.next[1] < rawEdges.prev[1]
    /\ nextButtonPressed
    /\ lastInterruptTimeNext = rawEdges.next[1]
    /\ prevButtonPressed
    /\ lastInterruptTimePrev = rawEdges.prev[1]
    /\ currentPosition = 1

\* READY with nothing to handle: no flag pending, none in a snapshot that
\* is still to be tested
Idle ==
    /\ SetupDone
    /\ ~isDisplayingPattern
    /\ ~nextButtonPressed
    /\ ~prevButtonPressed
    /\ \/ pc = "loop"
       \/ pc = "ifNextPressed" /\ ~nextPressed /\ ~prevPressed
       \/ pc = "ifPrevPressed" /\ ~prevPressed

\* C22: after setup() the letter changes, a servo is written, a track is
\* played or lastActionTime is set only inside a handler that was called for
\* a flag found true in the snapshot; and in READY with no flag pending every
\* step except a button edge leaves the system in READY with nothing pending
\* and the letter, the servos, the audio channel and lastActionTime unchanged.
C22_Step ==
    /\ (SetupDone /\ (\/ currentPosition' # currentPosition
                       \/ servo' # servo
                       \/ events' # events
                       \/ lastActionTime' # lastActionTime)) =>
         \/ (pc \in {"ifNextPressed", "nextClear", "nextDisplay"} /\ nextPressed)
         \/ (pc \in {"ifPrevPressed", "prevClear", "prevDisplay"} /\ prevPressed)
    /\ (Idle /\ ~NextEdgeStep /\ ~PrevEdgeStep) =>
         /\ Idle'
         /\ currentPosition' = currentPosition
         /\ servo' = servo
         /\ events' = events
         /\ lastActionTime' = lastActionTime
         /\ transitions' = transitions

C22_NoTransitionWithoutPress == [][C22_Step]_vars

\* C22 witness: after a NEXT transition and its hold, READY has lasted a
\* second with nothing pending, and the letter is still B
C22_IdleInReady ==
    /\ Idle
    /\ pc = "loop"
    /\ transitions = [next |-> 1, prev |-> 0]
    /\ now - lastActionTime >= AUDIO_DISPLAY_DELAY + 1000
    /\ currentPosition = 2
    /\ RaisedDots(servo) = BrailleDots(2)

====
